---- MODULE Spec2Model ----
(***************************************************************************)
(* Model of the HeyClaw gateway client, WebSocketService.                  *)
(*                                                                         *)
(* The service runs on a single-threaded JavaScript event loop.  A step of *)
(* the model is one of                                                     *)
(*   - a public method called by the application,                          *)
(*   - a callback delivered by the event loop (a socket notification or a  *)
(*     timer), or                                                          *)
(*   - one promise continuation (microtask) of handleOpen.                 *)
(* Callbacks are delivered only when the microtask queue is empty; the     *)
(* application may issue several calls within one task, so its calls may   *)
(* precede the continuations they have queued.                             *)
(***************************************************************************)
EXTENDS Integers, Sequences, FiniteSets, TLC

\* ---------------------------------------------------------------- bounds
MaxSockets == 3            \* WebSocket objects constructed in one run
MaxRequestId == 4          \* largest value of the requestId counter
maxReconnectAttempts == 1  \* WS_CONFIG.maxReconnectAttempts, scaled down
MaxMessages == 3           \* items in the conversation of the store
MaxNow == 2                \* largest value of Date.now()
MaxInbound == 3            \* frames the transport receives

\* ---------------------------------------------------------------- inputs
\* An address is a sequence of chunks, so that trim() and startsWith() act
\* on it as they do on the string.
Addresses == { <<"gw">>, <<" ", "wss://", "gw", " ">> }
\* What the application passes to connect: an address and a token.
Targets == { <<a, t>> \in Addresses \X {"t1", "t2"} :
                 t = "t2" <=> Head(a) = " " }
ErrorMessages == { "", "unauthorized" }
Results == { "ok", "accepted" }
ChatPayloads == { [runId |-> "r1", state |-> "delta"],
                  [runId |-> "r1", state |-> "final"] }

VARIABLES
    sockets,            \* readyState of every WebSocket constructed so far
    ws,                 \* this.ws: index into sockets, 0 for null
    url,                \* this.url
    token,              \* this.token
    reconnectAttempts,  \* this.reconnectAttempts
    reconnectTimeout,   \* this.reconnectTimeout holds the handle of a timer
                        \* that has not fired (clearing the handle of a
                        \* timer that has fired does nothing)
    reconnectTimers,    \* number of armed reconnect timers
    pingInterval,       \* this.pingInterval is not null
    pingTimers,         \* number of armed keepalive intervals
    isIntentionalClose, \* this.isIntentionalClose
    isConnected,        \* this.isConnected
    requestId,          \* this.requestId
    pendingRequests,    \* keys of this.pendingRequests
    requests,           \* every request that was given an id: its deadline
                        \* timer and the calls made of its resolve/reject
                        \* and, until it is settled, its method and the
                        \* socket its frame was written to
    microtasks,         \* queued continuations of handleOpen
    appTurn,            \* the running task was started by the application
    out,                \* what the last step did that is visible outside
    subscribers,        \* this.chatHandlers, this.statusHandlers and
                        \* this.errorHandlers, each in insertion order
    invoked,            \* the calls of subscribers made by the last step
    conversation,       \* conversation of the store: id and content of
                        \* every item
    streamingMessageRef, \* streamingMessageRef.current of HomeScreen
    now,                \* Date.now()
    streams,            \* history: of every runId, the messages made for
                        \* it since its last final event
    inbound,            \* the frames the transport has received, in the
                        \* order of their arrival
    dispatched,         \* how many of them it has passed to onmessage
    observed,           \* history: the calls of the chat subscribers
    notified,           \* history: of every status notification of the
                        \* step, what was notified and what getIsConnected()
                        \* returned when it was
    echo,               \* a request frame, the text it is encoded to and
                        \* the frame that text is decoded to
    authFailed,         \* sockets that handleOpen closed because the
                        \* authentication request got an error response or
                        \* timed out, until their close notification
    retry,              \* history of the current run of automatic retries
    budget,             \* history: whether the terminal error has been
                        \* surfaced, and the socket made by the last connect
                        \* call if the call came after that
    wire                \* history: of every socket, the first frame written
                        \* to it and whether an authentication request
                        \* written to it has been answered with success

vars == << sockets, ws, url, token, reconnectAttempts, reconnectTimeout,
           reconnectTimers, pingInterval, pingTimers, isIntentionalClose,
           isConnected, requestId, pendingRequests, requests, microtasks,
           appTurn, out, subscribers, invoked, conversation,
           streamingMessageRef, now, streams, inbound, dispatched, observed,
           notified, echo, authFailed, retry, budget, wire >>

\* The state as one record, so that the methods compose sequentially.
Cur ==
    [ sockets |-> sockets, ws |-> ws, url |-> url, token |-> token,
      reconnectAttempts |-> reconnectAttempts,
      reconnectTimeout |-> reconnectTimeout,
      reconnectTimers |-> reconnectTimers,
      pingInterval |-> pingInterval, pingTimers |-> pingTimers,
      isIntentionalClose |-> isIntentionalClose,
      isConnected |-> isConnected, requestId |-> requestId,
      pendingRequests |-> pendingRequests, requests |-> requests,
      microtasks |-> microtasks, out |-> out, subscribers |-> subscribers,
      invoked |-> invoked, conversation |-> conversation,
      streamingMessageRef |-> streamingMessageRef, now |-> now,
      streams |-> streams,
      inbound |-> inbound, dispatched |-> dispatched, observed |-> observed,
      notified |-> notified, echo |-> echo,
      authFailed |-> authFailed ]

Commit(s) ==
    /\ sockets' = s.sockets
    /\ ws' = s.ws
    /\ url' = s.url
    /\ token' = s.token
    /\ reconnectAttempts' = s.reconnectAttempts
    /\ reconnectTimeout' = s.reconnectTimeout
    /\ reconnectTimers' = s.reconnectTimers
    /\ pingInterval' = s.pingInterval
    /\ pingTimers' = s.pingTimers
    /\ isIntentionalClose' = s.isIntentionalClose
    /\ isConnected' = s.isConnected
    /\ requestId' = s.requestId
    /\ pendingRequests' = s.pendingRequests
    /\ requests' = s.requests
    /\ microtasks' = s.microtasks
    /\ out' = s.out
    /\ subscribers' = s.subscribers
    /\ invoked' = s.invoked
    /\ conversation' = s.conversation
    /\ streamingMessageRef' = s.streamingMessageRef
    /\ now' = s.now
    /\ streams' = s.streams
    /\ inbound' = s.inbound
    /\ dispatched' = s.dispatched
    /\ observed' = s.observed
    /\ notified' = s.notified
    /\ echo' = s.echo
    /\ authFailed' = s.authFailed

\* The state at the start of a step: nothing done yet but the entry itself.
Begin(label) ==
    [Cur EXCEPT !.out = << label >>, !.invoked = <<>>, !.notified = <<>>]

Min(S) == CHOOSE x \in S : \A y \in S : x <= y

\* ------------------------------------------------------------ WebSocket
\* WebSocket.readyState === WebSocket.OPEN of this.ws
wsIsOpen(s) == s.ws # 0 /\ s.sockets[s.ws] = "OPEN"

\* WebSocket.close()
wsClose(state) == IF state \in {"CONNECTING", "OPEN"} THEN "CLOSING" ELSE state

\* The WebSocket is the platform's (React Native).  It fires open once, while
\* CONNECTING, message while OPEN, and close once.  Its constructor hands the
\* address to the native module and throws only when the address is no
\* string at all; a connection that cannot be made fails with error and
\* close.
ValidUrl(u) == u \in Seq({" ", "ws://", "wss://", "gw"})

\* ------------------------------------------------------------ subscribers
\* The handlers an application registers; a call of h2 throws.
Handlers == { "h1", "h2" }
Throws(handler) == handler = "h2"

\* Set.add and Set.delete: a Set iterates in insertion order
setAdd(handlers, handler) ==
    IF \E i \in 1..Len(handlers) : handlers[i] = handler THEN handlers
    ELSE Append(handlers, handler)

setDelete(handlers, handler) == SelectSeq(handlers, LAMBDA h : h # handler)

Call(channel, handler, argument) ==
    [channel |-> channel, handler |-> handler, argument |-> argument,
     threw |-> Throws(handler)]

\* forEach that lets the exception of a handler escape
RECURSIVE forEachUncaught(_, _, _)
forEachUncaught(channel, handlers, argument) ==
    IF handlers = <<>> THEN <<>>
    ELSE IF Throws(Head(handlers))
    THEN << Call(channel, Head(handlers), argument) >>
    ELSE << Call(channel, Head(handlers), argument) >>
         \o forEachUncaught(channel, Tail(handlers), argument)

\* handlers.forEach(handler => try { handler(argument) } catch { log })
RECURSIVE forEach(_, _, _)
forEach(channel, handlers, argument) ==
    IF handlers = <<>> THEN <<>>
    ELSE << Call(channel, Head(handlers), argument) >>
         \o forEach(channel, Tail(handlers), argument)

notifyStatusHandlers(s, connected) ==
    [s EXCEPT !.out = Append(@, <<"status", connected>>),
              !.notified = Append(@, <<connected, s.isConnected>>),
              !.invoked = @ \o forEach("status", s.subscribers.status,
                                       connected)]

notifyErrorHandlers(s, error) ==
    [s EXCEPT !.out = Append(@, <<"error", error>>),
              !.invoked = @ \o forEach("error", s.subscribers.error, error)]

\* notifyChatHandlers handing every event on as a final one
notifyChatHandlersAsFinal(s, payload) ==
    [s EXCEPT !.out = Append(@, <<"chat", payload>>),
              !.invoked = @ \o forEach("chat", s.subscribers.chat,
                                       [payload EXCEPT !.state = "final"])]

notifyChatHandlers(s, payload) ==
    [s EXCEPT !.out = Append(@, <<"chat", payload>>),
              !.invoked = @ \o forEach("chat", s.subscribers.chat, payload)]

onChat(s, handler) == [s EXCEPT !.subscribers.chat = setAdd(@, handler)]
onStatus(s, handler) == [s EXCEPT !.subscribers.status = setAdd(@, handler)]
onError(s, handler) == [s EXCEPT !.subscribers.error = setAdd(@, handler)]

\* The function that onChat, onStatus or onError returned
unsubscribe(s, channel, handler) ==
    [s EXCEPT !.subscribers[channel] = setDelete(@, handler)]

\* ------------------------------------------------------------ connect
RECURSIVE trimLeft(_)
trimLeft(a) == IF a # <<>> /\ Head(a) = " " THEN trimLeft(Tail(a)) ELSE a

RECURSIVE trimRight(_)
trimRight(a) ==
    IF a # <<>> /\ a[Len(a)] = " " THEN trimRight(SubSeq(a, 1, Len(a) - 1))
    ELSE a

\* gatewayUrl.trim(), prefixed with ws:// unless it has a scheme
normalizeUrl(gatewayUrl) ==
    LET wsUrl == trimRight(trimLeft(gatewayUrl)) IN
    IF wsUrl # <<>> /\ Head(wsUrl) \in {"ws://", "wss://"} THEN wsUrl
    ELSE <<"ws://">> \o wsUrl

\* scheduleReconnect counting the attempt without arming the timer
scheduleReconnectArmsNothing(s) ==
    IF s.reconnectAttempts >= maxReconnectAttempts
    THEN notifyErrorHandlers(s, "Could not connect to gateway")
    ELSE [s EXCEPT !.reconnectAttempts = @ + 1]

scheduleReconnect(s) ==
    IF s.reconnectAttempts >= maxReconnectAttempts
    THEN notifyErrorHandlers(s, "Could not connect to gateway")
    ELSE [s EXCEPT !.reconnectAttempts = @ + 1,
                   !.reconnectTimeout = TRUE,
                   !.reconnectTimers = @ + 1]

doConnect(s) ==
    IF wsIsOpen(s) THEN s
    ELSE IF ~ValidUrl(s.url) THEN scheduleReconnect(s)
    ELSE [s EXCEPT !.sockets = Append(@, "CONNECTING"),
                   !.ws = Len(s.sockets) + 1]

\* doConnect would construct a WebSocket
Constructs(s) == ~wsIsOpen(s) /\ ValidUrl(s.url)

connect(s, gatewayUrl, tok) ==
    doConnect([s EXCEPT !.url = normalizeUrl(gatewayUrl),
                        !.token = tok,
                        !.isIntentionalClose = FALSE])

\* ------------------------------------------------------------ requests
TimedOut(method) ==
    IF method = "connect" THEN "Request connect timed out"
    ELSE "Request chat.send timed out"

Settled(r) == [method |-> "", sock |-> 0, timer |-> r.timer,
               calls |-> r.calls + 1]

\* The promise of sendRequest settles once; awaiting it, handleOpen resumes
\* in a later microtask.
\* The promise resolving with the same value whatever the result
resolveRequestIgnoresResult(s, id, result) ==
    LET r == s.requests[id] IN
    IF r.calls > 0 THEN [s EXCEPT !.requests[id].calls = @ + 1]
    ELSE [s EXCEPT !.requests[id] = Settled(r),
                   !.out = Append(@, <<"resolve", id, "ok">>),
                   !.microtasks = IF r.method = "connect"
                                  THEN Append(@, <<"authOk">>) ELSE @]

resolveRequest(s, id, result) ==
    LET r == s.requests[id] IN
    IF r.calls > 0 THEN [s EXCEPT !.requests[id].calls = @ + 1]
    ELSE [s EXCEPT !.requests[id] = Settled(r),
                   !.out = Append(@, <<"resolve", id, result>>),
                   !.microtasks = IF r.method = "connect"
                                  THEN Append(@, <<"authOk">>) ELSE @]

\* rejectRequest resuming handleOpen whatever the method of the request
rejectRequestResumesHandleOpen(s, id, reason) ==
    LET r == s.requests[id] IN
    IF r.calls > 0 THEN [s EXCEPT !.requests[id].calls = @ + 1]
    ELSE [s EXCEPT !.requests[id] = Settled(r),
                   !.out = Append(@, <<"reject", id, reason>>),
                   !.microtasks = Append(@, <<"authFail", reason>>)]

rejectRequest(s, id, reason) ==
    LET r == s.requests[id] IN
    IF r.calls > 0 THEN [s EXCEPT !.requests[id].calls = @ + 1]
    ELSE [s EXCEPT !.requests[id] = Settled(r),
                   !.out = Append(@, <<"reject", id, reason>>),
                   !.microtasks = IF r.method = "connect"
                                  THEN Append(@, <<"authFail", reason>>)
                                  ELSE @]

\* sendRequest arming no deadline timer
sendRequestNoDeadline(s, method, params) ==
    IF ~wsIsOpen(s)
    THEN [s EXCEPT !.out = Append(@, <<"reject", 0, "WebSocket not connected">>),
                   !.microtasks =
                       IF method = "connect"
                       THEN Append(@, <<"authFail", "WebSocket not connected">>)
                       ELSE @]
    ELSE LET id == s.requestId + 1 IN
         [s EXCEPT !.requestId = id,
                   !.requests = @ @@ (id :> [method |-> method,
                                             sock |-> s.ws,
                                             timer |-> FALSE,
                                             calls |-> 0]),
                   !.pendingRequests = @ \cup {id},
                   !.out = Append(@, <<"send", s.ws,
                                       [type |-> "req", id |-> id,
                                        method |-> method,
                                        params |-> params]>>)]

sendRequest(s, method, params) ==
    IF ~wsIsOpen(s)
    THEN [s EXCEPT !.out = Append(@, <<"reject", 0, "WebSocket not connected">>),
                   !.microtasks =
                       IF method = "connect"
                       THEN Append(@, <<"authFail", "WebSocket not connected">>)
                       ELSE @]
    ELSE LET id == s.requestId + 1 IN
         [s EXCEPT !.requestId = id,
                   !.requests = @ @@ (id :> [method |-> method,
                                             sock |-> s.ws,
                                             timer |-> TRUE,
                                             calls |-> 0]),
                   !.pendingRequests = @ \cup {id},
                   !.out = Append(@, <<"send", s.ws,
                                       [type |-> "req", id |-> id,
                                        method |-> method,
                                        params |-> params]>>)]

\* The callback of the deadline timer of request id
\* The deadline callback leaving the entry in the table
requestTimeoutKeepsEntry(s, id) ==
    rejectRequest([s EXCEPT !.requests[id].timer = FALSE],
                  id, TimedOut(s.requests[id].method))

requestTimeout(s, id) ==
    rejectRequest([s EXCEPT !.requests[id].timer = FALSE,
                            !.pendingRequests = @ \ {id}],
                  id, TimedOut(s.requests[id].method))

\* handleResponse settling whatever id the response carries
handleResponseAnyId(s, response) ==
    LET s1 == [s EXCEPT !.requests[response.id].timer = FALSE,
                        !.pendingRequests = @ \ {response.id},
                        !.out = @ \o << <<"clearTimeout", response.id>>,
                                        <<"delete", response.id>> >>]
    IN IF response.error # "none"
       THEN rejectRequest(s1, response.id,
                          IF response.error # "" THEN response.error
                          ELSE "Request failed")
       ELSE resolveRequest(s1, response.id, response.result)

handleResponse(s, response) ==
    IF response.id \notin s.pendingRequests THEN s
    ELSE LET s1 == [s EXCEPT !.requests[response.id].timer = FALSE,
                             !.pendingRequests = @ \ {response.id},
                             !.out = @ \o << <<"clearTimeout", response.id>>,
                                             <<"delete", response.id>> >>]
         IN IF response.error # "none"
            THEN rejectRequest(s1, response.id,
                               IF response.error # "" THEN response.error
                               ELSE "Request failed")
            ELSE resolveRequest(s1, response.id, response.result)

\* handleEvent putting off the calls of the chat subscribers
handleEventDefersChat(s, event) ==
    IF event.event = "chat"
    THEN [s EXCEPT !.microtasks = Append(@, <<"chat", event.payload>>)]
    ELSE s

handleEvent(s, event) ==
    IF event.event = "chat" THEN notifyChatHandlers(s, event.payload)
    ELSE s

\* handleMessage reporting a frame it cannot use to the error subscribers
handleMessageReportsUnknown(s, message) ==
    IF message.type = "res" THEN handleResponse(s, message)
    ELSE IF message.type = "event" THEN handleEvent(s, message)
    ELSE notifyErrorHandlers(s, "Invalid message")

handleMessage(s, message) ==
    IF message.type = "res" THEN handleResponse(s, message)
    ELSE IF message.type = "event" THEN handleEvent(s, message)
    ELSE s

\* ------------------------------------------------------------ teardown
RECURSIVE rejectAll(_, _)
rejectAll(s, ids) ==
    IF ids = {} THEN s
    ELSE LET id == Min(ids) IN
         rejectAll(rejectRequest([s EXCEPT !.requests[id].timer = FALSE],
                                 id, "Connection closed"),
                   ids \ {id})

\* cleanup starting the request ids again from zero
cleanupResetsRequestId(s) ==
    [s EXCEPT !.pendingRequests = {}, !.requestId = 0,
              !.pingInterval = FALSE, !.reconnectTimeout = FALSE,
              !.pingTimers = IF s.pingInterval THEN @ - 1 ELSE @,
              !.reconnectTimers = IF s.reconnectTimeout THEN @ - 1 ELSE @,
              !.requests = [id \in DOMAIN @ |->
                               IF id \in s.pendingRequests
                               THEN Settled([@[id] EXCEPT !.timer = FALSE])
                               ELSE @[id]]]

cleanup(s) ==
    LET s1 == IF s.pingInterval
              THEN [s EXCEPT !.pingInterval = FALSE, !.pingTimers = @ - 1]
              ELSE s
        s2 == IF s1.reconnectTimeout
              THEN [s1 EXCEPT !.reconnectTimeout = FALSE,
                              !.reconnectTimers = @ - 1]
              ELSE s1
        s3 == rejectAll(s2, s2.pendingRequests)
    IN [s3 EXCEPT !.pendingRequests = {}]

disconnect(s) ==
    LET s1 == cleanup([s EXCEPT !.isIntentionalClose = TRUE,
                                !.isConnected = FALSE])
    IN IF s1.ws # 0
       THEN [s1 EXCEPT !.sockets[s1.ws] = wsClose(@), !.ws = 0]
       ELSE s1

startPingInterval(s) ==
    [s EXCEPT !.pingInterval = TRUE, !.pingTimers = @ + 1]

\* handleOpen leaving reconnectAttempts as it is
handleOpenKeepsAttempts(s) ==
    sendRequest(s, "connect", [token |-> s.token])

\* handleOpen marking the service connected before its await
handleOpenConnectedAtOnce(s) ==
    sendRequest([s EXCEPT !.reconnectAttempts = 0, !.isConnected = TRUE],
                "connect", [token |-> s.token])

\* handleOpen up to its await
handleOpen(s) ==
    sendRequest([s EXCEPT !.reconnectAttempts = 0], "connect",
                [token |-> s.token])

\* handleOpen notifying the status before it marks the service connected
handleOpenResolvedNotifiesFirst(s) ==
    startPingInterval(
        [notifyStatusHandlers(s, TRUE) EXCEPT !.isConnected = TRUE])

\* handleOpen after its await, the request having succeeded
handleOpenResolved(s) ==
    startPingInterval(
        notifyStatusHandlers([s EXCEPT !.isConnected = TRUE], TRUE))

\* handleOpen after its await, the request having failed
handleOpenRejected(s, message) ==
    disconnect(notifyErrorHandlers(s,
        IF message # "" THEN message ELSE "Authentication failed"))

\* handleClose leaving isConnected as it is
handleCloseStaysConnected(s) ==
    LET s1 == notifyStatusHandlers(cleanup(s), FALSE)
    IN IF ~s1.isIntentionalClose THEN scheduleReconnect(s1) ELSE s1

handleClose(s) ==
    LET s1 == notifyStatusHandlers(
                  cleanup([s EXCEPT !.isConnected = FALSE]), FALSE)
    IN IF ~s1.isIntentionalClose THEN scheduleReconnect(s1) ELSE s1

handleError(s) == notifyErrorHandlers(s, "Connection error")

\* sendChatMessage without its check of isConnected
sendChatMessageUnchecked(s, message) ==
    LET key == s.requestId + 1 IN
    sendRequest([s EXCEPT !.requestId = key], "chat.send",
                [sessionKey |-> "main", message |-> message,
                 idempotencyKey |-> key])

\* sendChatMessage taking the last id allocated as the idempotency key
sendChatMessageReusesKey(s, message) ==
    IF ~s.isConnected
    THEN [s EXCEPT !.out = Append(@, <<"throw", "Not connected to gateway">>)]
    ELSE sendRequest(s, "chat.send",
                     [sessionKey |-> "main", message |-> message,
                      idempotencyKey |-> s.requestId])

sendChatMessage(s, message) ==
    IF ~s.isConnected
    THEN [s EXCEPT !.out = Append(@, <<"throw", "Not connected to gateway">>)]
    ELSE LET key == s.requestId + 1 IN
         sendRequest([s EXCEPT !.requestId = key], "chat.send",
                     [sessionKey |-> "main", message |-> message,
                      idempotencyKey |-> key])

getIsConnected == isConnected

\* ------------------------------------------------------------ frames
\* A gateway answers the requests it received on a socket, answers again
\* requests that are settled, and pushes events.
Frames(sock) ==
    [type : {"res"},
     id : {id \in DOMAIN requests :
               requests[id].calls = 0 => requests[id].sock = sock},
     error : {"none"}, result : Results]
    \cup [type : {"res"},
          id : {id \in DOMAIN requests :
                    requests[id].calls = 0 => requests[id].sock = sock},
          error : ErrorMessages, result : {"none"}]
    \cup [type : {"event"}, event : {"chat"}, payload : ChatPayloads]
    \cup [type : {"event"}, event : {"pong", "tick"}, payload : {"none"}]
    \cup [type : {"hello", "malformed"}]

FrameLabel(message) ==
    IF message.type = "res" THEN "response"
    ELSE IF message.type = "event" THEN "event"
    ELSE "frame"

\* The entry of handleMessage: of a response, the id it carries is noted
Receive(message) ==
    IF message.type = "res"
    THEN [Begin("response") EXCEPT !.out = Append(@, <<"id", message.id>>)]
    ELSE Begin(FrameLabel(message))

\* What a step did after its entry
Outputs(o) == { o[i] : i \in 2..Len(o) }

\* ------------------------------------------------------------ JSON
\* The values of the program: strings, numbers, undefined, arrays, and
\* objects with their own keys in the order of insertion.
Str(v) == [t |-> "string", v |-> v]
Num(v) == [t |-> "number", v |-> v]
Undefined == [t |-> "undefined"]
Arr(items) == [t |-> "array", items |-> items]
Obj(own, val) == [t |-> "object", own |-> own, val |-> val]

PROTOCOL_VERSION == 3

CLIENT_INFO ==
    Obj(<<"id", "displayName", "version", "platform", "mode">>,
        [id |-> Str("openclaw-android"), displayName |-> Str("HeyClaw"),
         version |-> Str("1.0.0"), platform |-> Str("android"),
         mode |-> Str("operator")])

\* The id nextId() makes of the counter and the time
nextId(counter, time) == Str(<<"hc", counter, time>>)

\* params of sendConnectRequest and of sendChatMessage
connectParams(tok) ==
    Obj(<<"minProtocol", "maxProtocol", "auth", "client", "role", "scopes">>,
        [minProtocol |-> Num(PROTOCOL_VERSION),
         maxProtocol |-> Num(PROTOCOL_VERSION),
         auth |-> Obj(<<"token">>, [token |-> Str(tok)]),
         client |-> CLIENT_INFO,
         role |-> Str("operator"),
         scopes |-> Arr(<<Str("operator.read"), Str("operator.write")>>)])

chatParams(message, key) ==
    Obj(<<"sessionKey", "message", "idempotencyKey">>,
        [sessionKey |-> Str("main"), message |-> Str(message),
         idempotencyKey |-> key])

\* The request object of sendRequest
request(id, method, params) ==
    Obj(<<"type", "id", "method", "params">>,
        [type |-> Str("req"), id |-> id, method |-> Str(method),
         params |-> params])

\* JSON.stringify writing an object or an array inside a value as the
\* string String() makes of it
stringifyShallow(value) ==
    IF value.t = "object"
    THEN LET Defined(key) == value.val[key].t # "undefined"
             keys == SelectSeq(value.own, Defined)
         IN [json |-> "object",
             members |-> [i \in 1..Len(keys) |->
                 LET member == value.val[keys[i]]
                 IN <<keys[i],
                      IF member.t \in {"object", "array"}
                      THEN [json |-> "string", lit |-> "[object Object]"]
                      ELSE [json |-> member.t, lit |-> member.v]>>]]
    ELSE [json |-> value.t, lit |-> value.v]

\* JSON.stringify: the members of an object are its own keys in the order
\* of insertion, without those whose value is undefined; an undefined item
\* of an array is written as null.
RECURSIVE stringify(_)
stringify(value) ==
    IF value.t = "object"
    THEN LET Defined(key) == value.val[key].t # "undefined"
             keys == SelectSeq(value.own, Defined)
         IN [json |-> "object",
             members |-> [i \in 1..Len(keys) |->
                             <<keys[i], stringify(value.val[keys[i]])>>]]
    ELSE IF value.t = "array"
    THEN [json |-> "array",
          items |-> [i \in 1..Len(value.items) |->
                        IF value.items[i].t = "undefined"
                        THEN [json |-> "null"]
                        ELSE stringify(value.items[i])]]
    ELSE [json |-> value.t, lit |-> value.v]

\* The keys of a text in the order of their first occurrence
RECURSIVE ownKeys(_)
ownKeys(keys) ==
    IF keys = <<>> THEN <<>>
    ELSE LET front == ownKeys(SubSeq(keys, 1, Len(keys) - 1))
             key == keys[Len(keys)]
         IN IF \E i \in 1..Len(front) : front[i] = key THEN front
            ELSE Append(front, key)

\* JSON.parse: an object has the keys of the text, and of members with the
\* same key the value of the last.
RECURSIVE parse(_)
parse(text) ==
    IF text.json = "object"
    THEN LET keys == [i \in 1..Len(text.members) |-> text.members[i][1]]
             Last(key) == CHOOSE i \in 1..Len(keys) :
                              /\ keys[i] = key
                              /\ \A j \in i + 1..Len(keys) : keys[j] # key
         IN Obj(ownKeys(keys),
                [key \in { keys[i] : i \in 1..Len(keys) } |->
                    parse(text.members[Last(key)][2])])
    ELSE IF text.json = "array"
    THEN Arr([i \in 1..Len(text.items) |-> parse(text.items[i])])
    ELSE IF text.json = "null" THEN [t |-> "null"]
    ELSE [t |-> text.json, v |-> text.lit]

\* ------------------------------------------------------------ HomeScreen
\* The chat events the gateway sends, after the handler has extracted text
\* and role from the payload; a missing field is the empty string.
ChatEvents ==
    [runId : {"", "r1", "r2"}, state : {"", "delta", "final", "error"},
     text : {"", "a", "b"}, role : {"assistant", "user"}]

Null == [runId |-> "null", messageId |-> -1]

Threw(s) == \E o \in Outputs(s.out) : o[1] = "throw"

\* addMessage of the store
addMessage(s, item) == [s EXCEPT !.conversation = Append(@, item)]

\* The store defines no updateMessage: the name destructured from
\* useAppStore() is undefined, and calling it throws a TypeError.
updateMessage(s, messageId, text) ==
    [s EXCEPT !.out = Append(@, <<"throw", "updateMessage is not a function">>)]

\* The handler HomeScreen registers with onChat
onChatEvent(s, payload) ==
    IF payload.text = "" \/ payload.role # "assistant" THEN s
    ELSE
    LET runId == IF payload.runId # "" THEN payload.runId ELSE "unknown"
        state == IF payload.state # "" THEN payload.state ELSE "final"
        streaming == s.streamingMessageRef # Null
                     /\ s.streamingMessageRef.runId = runId
        item == [id |-> s.now, content |-> payload.text]
    IN IF state = "delta"
       THEN IF streaming
            THEN updateMessage(s, s.streamingMessageRef.messageId,
                               payload.text)
            ELSE addMessage([s EXCEPT !.streamingMessageRef =
                                [runId |-> runId, messageId |-> s.now]],
                            item)
       ELSE IF state = "final"
       THEN IF streaming
            THEN LET s1 == updateMessage(s, s.streamingMessageRef.messageId,
                                         payload.text)
                 IN IF Threw(s1) THEN s1
                    ELSE [s1 EXCEPT !.streamingMessageRef = Null]
            ELSE addMessage(s, item)
       ELSE s

\* ------------------------------------------------------------ steps
NoRetry == [made |-> -1, terminal |-> FALSE]
NoFrames == [first |-> "none", authenticated |-> FALSE]
FullBudget == [surfaced |-> FALSE, socket |-> 0]

Init ==
    /\ sockets = <<>>
    /\ ws = 0
    /\ url = <<>>
    /\ token = ""
    /\ reconnectAttempts = 0
    /\ reconnectTimeout = FALSE
    /\ reconnectTimers = 0
    /\ pingInterval = FALSE
    /\ pingTimers = 0
    /\ isIntentionalClose = FALSE
    /\ isConnected = FALSE
    /\ requestId = 0
    /\ pendingRequests = {}
    /\ requests = <<>>
    /\ microtasks = <<>>
    /\ appTurn = FALSE
    /\ out = <<"new">>
    /\ subscribers = [chat |-> <<>>, status |-> <<>>, error |-> <<>>]
    /\ invoked = <<>>
    /\ conversation = <<>>
    /\ streamingMessageRef = Null
    /\ now = 0
    /\ streams = [runId \in {"r1", "r2", "unknown"} |-> 0]
    /\ inbound = <<>>
    /\ dispatched = 0
    /\ observed = <<>>
    /\ notified = <<>>
    /\ echo = [stage |-> "idle"]
    /\ authFailed = {}
    /\ retry = NoRetry
    /\ wire = [sock \in 1..MaxSockets |-> NoFrames]
    /\ budget = FullBudget

\* A call of the application runs in a task of its own or within the task
\* in which the application made its previous call.
AppMayCall == microtasks = <<>> \/ appTurn

ConnectStep(gatewayUrl, tok) ==
    /\ AppMayCall
    /\ LET s == [Begin("connect") EXCEPT !.url = normalizeUrl(gatewayUrl)]
       IN Constructs(s) => Len(sockets) < MaxSockets
    /\ Commit(connect(Begin("connect"), gatewayUrl, tok))
    /\ appTurn' = (microtasks' # <<>>)

DisconnectStep ==
    /\ AppMayCall
    /\ Commit(disconnect(Begin("disconnect")))
    /\ appTurn' = (microtasks' # <<>>)

SendChatMessageStep ==
    /\ AppMayCall
    /\ isConnected => requestId + 2 <= MaxRequestId
    /\ Commit(sendChatMessage(Begin("sendChatMessage"), "hi"))
    /\ appTurn' = (microtasks' # <<>>)

SocketOpenStep(sock) ==
    /\ microtasks = <<>>
    /\ sockets[sock] = "CONNECTING"
    /\ requestId < MaxRequestId
    /\ Commit(handleOpen([Begin("open") EXCEPT !.sockets[sock] = "OPEN"]))
    /\ appTurn' = FALSE

SocketMessageStep(sock, message) ==
    /\ microtasks = <<>>
    /\ sockets[sock] = "OPEN"
    /\ Commit(handleMessage(Receive(message), message))
    /\ appTurn' = FALSE

\* The socket closes.  When the connection has failed, the socket fires its
\* error event and then, in the same task, its close event.
SocketCloseStep(sock, failed) ==
    /\ microtasks = <<>>
    /\ sockets[sock] # "CLOSED"
    /\ LET s == [Begin("close") EXCEPT !.sockets[sock] = "CLOSED",
                                       !.authFailed = @ \ {sock}]
       IN Commit(handleClose(IF failed THEN handleError(s) ELSE s))
    /\ appTurn' = FALSE

RequestTimeoutStep(id) ==
    /\ microtasks = <<>>
    /\ requests[id].timer
    /\ Commit(requestTimeout(Begin("timeout"), id))
    /\ appTurn' = FALSE

\* A retry timer fires: the one whose handle this.reconnectTimeout holds, or
\* one whose handle a later scheduleReconnect has overwritten.
ReconnectTimerStep(held) ==
    /\ microtasks = <<>>
    /\ IF held THEN reconnectTimeout
       ELSE reconnectTimers > (IF reconnectTimeout THEN 1 ELSE 0)
    /\ Constructs(Cur) => Len(sockets) < MaxSockets
    /\ Commit(doConnect([Begin("reconnect")
                             EXCEPT !.reconnectTimeout = @ /\ ~held,
                                    !.reconnectTimers = @ - 1]))
    /\ appTurn' = FALSE

\* The callback of startPingInterval
PingTimerStep ==
    /\ microtasks = <<>>
    /\ pingTimers > 0
    /\ Commit(IF wsIsOpen(Cur)
              THEN [Begin("ping") EXCEPT !.out =
                       Append(@, <<"send", ws,
                                   [type |-> "event", event |-> "ping"]>>)]
              ELSE Begin("ping"))
    /\ appTurn' = FALSE

\* The reasons with which the service itself fails a request
OwnReasons == { "WebSocket not connected", "Connection closed" }

\* handleOpen resumes after its await
MicrotaskStep ==
    /\ microtasks # <<>>
    /\ LET m == Head(microtasks)
           s == [Begin("microtask") EXCEPT !.microtasks = Tail(@)]
       IN Commit(IF m[1] = "authOk" THEN handleOpenResolved(s)
                 ELSE [handleOpenRejected(s, m[2]) EXCEPT !.authFailed =
                          IF wsIsOpen(s) /\ m[2] \notin OwnReasons
                          THEN @ \cup {s.ws} ELSE @])
    /\ appTurn' = (appTurn /\ microtasks' # <<>>)

Connect(gatewayUrl, tok) == ConnectStep(gatewayUrl, tok) /\ UNCHANGED <<retry, wire, budget>>
Disconnect == DisconnectStep /\ UNCHANGED <<retry, wire, budget>>
SendChatMessage == SendChatMessageStep /\ UNCHANGED <<retry, wire, budget>>
SocketOpen(sock) == SocketOpenStep(sock) /\ UNCHANGED <<retry, wire, budget>>
SocketMessage(sock, message) ==
    SocketMessageStep(sock, message) /\ UNCHANGED <<retry, wire, budget>>
SocketClose(sock, failed) == SocketCloseStep(sock, failed) /\ UNCHANGED <<retry, wire, budget>>
RequestTimeout(id) == RequestTimeoutStep(id) /\ UNCHANGED <<retry, wire, budget>>
ReconnectTimer(held) == ReconnectTimerStep(held) /\ UNCHANGED <<retry, wire, budget>>
PingTimer == PingTimerStep /\ UNCHANGED <<retry, wire, budget>>
Microtask == MicrotaskStep /\ UNCHANGED <<retry, wire, budget>>

Next ==
    \/ \E target \in Targets : Connect(target[1], target[2])
    \/ Disconnect
    \/ SendChatMessage
    \/ \E sock \in 1..Len(sockets) : SocketOpen(sock)
    \/ \E sock \in 1..Len(sockets) : \E m \in Frames(sock) :
           SocketMessage(sock, m)
    \/ \E sock \in 1..Len(sockets), failed \in BOOLEAN :
           SocketClose(sock, failed)
    \/ \E id \in DOMAIN requests : RequestTimeout(id)
    \/ \E held \in BOOLEAN : ReconnectTimer(held)
    \/ PingTimer
    \/ Microtask

Spec == Init /\ [][Next]_vars

\* ------------------------------------------------------- steps, fairness
\* The event loop runs the continuation of an await once the running task
\* has returned, and a timer that stays armed fires.
Deadline(id) == id \in DOMAIN requests /\ RequestTimeout(id)

SpecLive ==
    /\ Init /\ [][Next]_vars
    /\ WF_vars(Microtask)
    /\ \A id \in 1..MaxRequestId : WF_vars(Deadline(id))

\* The retry timer whose handle the service holds fires once the retry
\* interval has passed.
SpecReconnect ==
    /\ Init /\ [][Next]_vars
    /\ WF_vars(Microtask)
    /\ WF_vars(ReconnectTimer(TRUE))

\* ----------------------------------------------------- steps, frames noted
\* The same steps with the history of the frames: what a step writes to a
\* socket that had nothing written to it is the first frame of the socket,
\* and a socket is authenticated once the promise of an authentication
\* request written to it is resolved.
FrameKind(frame) == IF frame.type = "req" THEN frame.method ELSE frame.event

SentTo(sock) == { o[3] : o \in { w \in Outputs(out') : w[1] = "send" /\ w[2] = sock } }

WireAfter ==
    [sock \in 1..MaxSockets |->
        [first |-> IF wire[sock].first = "none" /\ SentTo(sock) # {}
                   THEN FrameKind(CHOOSE frame \in SentTo(sock) : TRUE)
                   ELSE wire[sock].first,
         authenticated |->
             \/ wire[sock].authenticated
             \/ \E id \in pendingRequests :
                    /\ requests[id].method = "connect"
                    /\ requests[id].sock = sock
                    /\ \E result \in Results :
                           <<"resolve", id, result>> \in Outputs(out')]]

NotedConnect(gatewayUrl, tok) ==
    ConnectStep(gatewayUrl, tok) /\ wire' = WireAfter /\ UNCHANGED <<retry, budget>>
NotedDisconnect == DisconnectStep /\ wire' = WireAfter /\ UNCHANGED <<retry, budget>>
NotedSendChatMessage ==
    SendChatMessageStep /\ wire' = WireAfter /\ UNCHANGED <<retry, budget>>
NotedSocketOpen(sock) ==
    SocketOpenStep(sock) /\ wire' = WireAfter /\ UNCHANGED <<retry, budget>>
NotedSocketMessage(sock, message) ==
    SocketMessageStep(sock, message) /\ wire' = WireAfter /\ UNCHANGED <<retry, budget>>
NotedSocketClose(sock, failed) ==
    SocketCloseStep(sock, failed) /\ wire' = WireAfter /\ UNCHANGED <<retry, budget>>
NotedRequestTimeout(id) ==
    RequestTimeoutStep(id) /\ wire' = WireAfter /\ UNCHANGED <<retry, budget>>
NotedReconnectTimer(held) ==
    ReconnectTimerStep(held) /\ wire' = WireAfter /\ UNCHANGED <<retry, budget>>
NotedPingTimer == PingTimerStep /\ wire' = WireAfter /\ UNCHANGED <<retry, budget>>
NotedMicrotask == MicrotaskStep /\ wire' = WireAfter /\ UNCHANGED <<retry, budget>>

NextWire ==
    \/ \E target \in Targets : NotedConnect(target[1], target[2])
    \/ NotedDisconnect
    \/ NotedSendChatMessage
    \/ \E sock \in 1..Len(sockets) : NotedSocketOpen(sock)
    \/ \E sock \in 1..Len(sockets) : \E m \in Frames(sock) :
           NotedSocketMessage(sock, m)
    \/ \E sock \in 1..Len(sockets), failed \in BOOLEAN :
           NotedSocketClose(sock, failed)
    \/ \E id \in DOMAIN requests : NotedRequestTimeout(id)
    \/ \E held \in BOOLEAN : NotedReconnectTimer(held)
    \/ NotedPingTimer
    \/ NotedMicrotask

SpecWire == Init /\ [][NextWire]_vars

\* --------------------------------------------------- steps, retries counted
\* The same steps with the history of the automatic retries: a run of
\* retries starts when the current socket closes without disconnect()
\* having closed it, no other socket and no retry timer being left from
\* before, and lasts until a socket opens or the application calls connect
\* or disconnect; it counts the connection attempts made by the retry
\* timer and records that the terminal error was surfaced.
GaveUp(o) == <<"error", "Could not connect to gateway">> \in Outputs(o)

StartsRetries(sock) ==
    /\ sock = ws
    /\ \A other \in 1..Len(sockets) : other # sock => sockets[other] = "CLOSED"
    /\ reconnectTimers = 0

RetryAfterClose(sock) ==
    IF retry = NoRetry /\ ~StartsRetries(sock) THEN NoRetry
    ELSE [made |-> IF retry = NoRetry THEN 0 ELSE retry.made,
          terminal |-> retry.terminal \/ GaveUp(out')]

RetryAfterTimer ==
    IF retry = NoRetry THEN NoRetry
    ELSE [made |-> retry.made + 1,
          terminal |-> retry.terminal \/ GaveUp(out')]

CountedConnect(gatewayUrl, tok) ==
    ConnectStep(gatewayUrl, tok) /\ retry' = NoRetry /\ UNCHANGED <<wire, budget>>
CountedDisconnect == DisconnectStep /\ retry' = NoRetry /\ UNCHANGED <<wire, budget>>
CountedSocketOpen(sock) == SocketOpenStep(sock) /\ retry' = NoRetry /\ UNCHANGED <<wire, budget>>
CountedSocketClose(sock, failed) ==
    SocketCloseStep(sock, failed) /\ retry' = RetryAfterClose(sock) /\ UNCHANGED <<wire, budget>>
CountedReconnectTimer(held) ==
    ReconnectTimerStep(held) /\ retry' = RetryAfterTimer /\ UNCHANGED <<wire, budget>>

NextRetry ==
    \/ \E target \in Targets : CountedConnect(target[1], target[2])
    \/ CountedDisconnect
    \/ SendChatMessage
    \/ \E sock \in 1..Len(sockets) : CountedSocketOpen(sock)
    \/ \E sock \in 1..Len(sockets) : \E m \in Frames(sock) :
           SocketMessage(sock, m)
    \/ \E sock \in 1..Len(sockets), failed \in BOOLEAN :
           CountedSocketClose(sock, failed)
    \/ \E id \in DOMAIN requests : RequestTimeout(id)
    \/ \E held \in BOOLEAN : CountedReconnectTimer(held)
    \/ PingTimer
    \/ Microtask

SpecRetry == Init /\ [][NextRetry]_vars

\* ------------------------------------------- steps, terminal error noted
\* The same steps with the history of the terminal error: whether it has
\* been surfaced, and which socket the last connect call made, if the call
\* came after the error and made one.
BudgetAfter ==
    [surfaced |-> budget.surfaced \/ GaveUp(out'),
     socket |-> IF out'[1] # "connect" THEN budget.socket
                ELSE IF budget.surfaced /\ Len(sockets') > Len(sockets)
                THEN ws'
                ELSE 0]

LaterConnect(gatewayUrl, tok) ==
    ConnectStep(gatewayUrl, tok) /\ budget' = BudgetAfter
                                 /\ UNCHANGED <<retry, wire>>
LaterDisconnect ==
    DisconnectStep /\ budget' = BudgetAfter /\ UNCHANGED <<retry, wire>>
LaterSendChatMessage ==
    SendChatMessageStep /\ budget' = BudgetAfter /\ UNCHANGED <<retry, wire>>
LaterSocketOpen(sock) ==
    SocketOpenStep(sock) /\ budget' = BudgetAfter /\ UNCHANGED <<retry, wire>>
LaterSocketMessage(sock, message) ==
    SocketMessageStep(sock, message) /\ budget' = BudgetAfter
                                     /\ UNCHANGED <<retry, wire>>
LaterSocketClose(sock, failed) ==
    SocketCloseStep(sock, failed) /\ budget' = BudgetAfter
                                  /\ UNCHANGED <<retry, wire>>
LaterRequestTimeout(id) ==
    RequestTimeoutStep(id) /\ budget' = BudgetAfter /\ UNCHANGED <<retry, wire>>
LaterReconnectTimer(held) ==
    ReconnectTimerStep(held) /\ budget' = BudgetAfter
                             /\ UNCHANGED <<retry, wire>>
LaterPingTimer ==
    PingTimerStep /\ budget' = BudgetAfter /\ UNCHANGED <<retry, wire>>
LaterMicrotask ==
    MicrotaskStep /\ budget' = BudgetAfter /\ UNCHANGED <<retry, wire>>

NextBudget ==
    \/ \E target \in Targets : LaterConnect(target[1], target[2])
    \/ LaterDisconnect
    \/ LaterSendChatMessage
    \/ \E sock \in 1..Len(sockets) : LaterSocketOpen(sock)
    \/ \E sock \in 1..Len(sockets) : \E m \in Frames(sock) :
           LaterSocketMessage(sock, m)
    \/ \E sock \in 1..Len(sockets), failed \in BOOLEAN :
           LaterSocketClose(sock, failed)
    \/ \E id \in DOMAIN requests : LaterRequestTimeout(id)
    \/ \E held \in BOOLEAN : LaterReconnectTimer(held)
    \/ LaterPingTimer
    \/ LaterMicrotask

SpecBudget == Init /\ [][NextBudget]_vars

\* --------------------------------------------------- steps, subscribers
\* The application registers and removes handlers, and the service
\* notifies a channel.
Channels == { "chat", "status", "error" }

OnChat(handler) ==
    /\ Commit(onChat(Begin("onChat"), handler))
    /\ UNCHANGED <<appTurn, retry, wire, budget>>

OnStatus(handler) ==
    /\ Commit(onStatus(Begin("onStatus"), handler))
    /\ UNCHANGED <<appTurn, retry, wire, budget>>

OnError(handler) ==
    /\ Commit(onError(Begin("onError"), handler))
    /\ UNCHANGED <<appTurn, retry, wire, budget>>

Unsubscribe(channel, handler) ==
    /\ \E i \in 1..Len(subscribers[channel]) :
           subscribers[channel][i] = handler
    /\ Commit(unsubscribe(Begin("unsubscribe"), channel, handler))
    /\ UNCHANGED <<appTurn, retry, wire, budget>>

NotifyChat(payload) ==
    /\ Commit(notifyChatHandlers(Begin("notify"), payload))
    /\ UNCHANGED <<appTurn, retry, wire, budget>>

NotifyStatus(connected) ==
    /\ Commit(notifyStatusHandlers(Begin("notify"), connected))
    /\ UNCHANGED <<appTurn, retry, wire, budget>>

NotifyError(error) ==
    /\ Commit(notifyErrorHandlers(Begin("notify"), error))
    /\ UNCHANGED <<appTurn, retry, wire, budget>>

NextSubscribers ==
    \/ \E handler \in Handlers : OnChat(handler)
    \/ \E handler \in Handlers : OnStatus(handler)
    \/ \E handler \in Handlers : OnError(handler)
    \/ \E channel \in Channels, handler \in Handlers :
           Unsubscribe(channel, handler)
    \/ \E payload \in ChatPayloads : NotifyChat(payload)
    \/ \E connected \in BOOLEAN : NotifyStatus(connected)
    \/ \E error \in {"Connection error", "Could not connect to gateway"} :
           NotifyError(error)

SpecSubscribers == Init /\ [][NextSubscribers]_vars

\* ------------------------------------------------------- steps, transport
\* The transport receives frames and passes them to onmessage one at a
\* time, in the order of their arrival; the chat subscribers come and go.
Arrive(message) ==
    /\ Len(inbound) < MaxInbound
    /\ Commit([Begin("arrive") EXCEPT !.inbound = Append(@, message)])
    /\ UNCHANGED <<appTurn, retry, wire, budget>>

Dispatch ==
    /\ dispatched < Len(inbound)
    /\ LET message == inbound[dispatched + 1]
           s == handleMessage([Receive(message) EXCEPT !.dispatched = @ + 1],
                              message)
       IN Commit([s EXCEPT !.observed =
                     @ \o [i \in 1..Len(s.invoked) |->
                              [handler |-> s.invoked[i].handler,
                               payload |-> s.invoked[i].argument,
                               frame |-> s.dispatched]]])
    /\ UNCHANGED <<appTurn, retry, wire, budget>>

NextDispatch ==
    \/ \E message \in Frames(1) : Arrive(message)
    \/ Dispatch
    \/ \E handler \in Handlers : OnChat(handler)
    \/ \E handler \in Handlers : Unsubscribe("chat", handler)

SpecDispatch == Init /\ [][NextDispatch]_vars

\* ------------------------------------------------------------ steps, echo
\* The request frames sendRequest encodes: the connect request of
\* handleOpen and the chat request of sendChatMessage, whose idempotency
\* key is the id allocated just before its own.
Requests ==
    { request(nextId(counter, time), "connect", connectParams(tok)) :
          counter \in 1..MaxRequestId, time \in 0..MaxNow,
          tok \in {"", "t1", "t2"} }
    \cup
    { request(nextId(counter, time), "chat.send",
              chatParams(message, nextId(counter - 1, time))) :
          counter \in 2..MaxRequestId, time \in 0..MaxNow,
          message \in {"", "hi", "{}"} }

\* sendRequest encodes a request frame and writes the text; the transport
\* echoes the text back and handleMessage decodes it.
Encode(frame) ==
    /\ Commit([Begin("stringify") EXCEPT !.echo =
                   [stage |-> "sent", request |-> frame,
                    data |-> stringify(frame)]])
    /\ UNCHANGED <<appTurn, retry, wire, budget>>

Decode ==
    /\ echo.stage = "sent"
    /\ Commit([Begin("parse") EXCEPT !.echo =
                   [stage |-> "received", request |-> echo.request,
                    data |-> echo.data, message |-> parse(echo.data)]])
    /\ UNCHANGED <<appTurn, retry, wire, budget>>

NextEcho ==
    \/ \E frame \in Requests : Encode(frame)
    \/ Decode

SpecEcho == Init /\ [][NextEcho]_vars

\* --------------------------------------------------- steps, conversation
\* notifyChatHandlers calls the handler of HomeScreen with the payload of a
\* chat event; time passes between events, or does not.
RunIdOf(payload) == IF payload.runId # "" THEN payload.runId ELSE "unknown"
StateOf(payload) == IF payload.state # "" THEN payload.state ELSE "final"

\* The history after the handler has turned state s into state s1
StreamsAfter(s, s1, payload) ==
    IF payload.text = "" \/ payload.role # "assistant" THEN s.streams
    ELSE IF StateOf(payload) = "delta"
    THEN [s.streams EXCEPT ![RunIdOf(payload)] =
             @ + Len(s1.conversation) - Len(s.conversation)]
    ELSE IF StateOf(payload) = "final"
    THEN [s.streams EXCEPT ![RunIdOf(payload)] = 0]
    ELSE s.streams

ChatEvent(payload) ==
    /\ Len(conversation) < MaxMessages
    /\ LET s == [Begin("onChatEvent") EXCEPT
                    !.out = Append(@, <<"event", payload>>)]
           s1 == onChatEvent(s, payload)
       IN Commit([s1 EXCEPT !.streams = StreamsAfter(s, s1, payload)])
    /\ UNCHANGED <<appTurn, retry, wire, budget>>

Tick ==
    /\ now < MaxNow
    /\ Commit([Begin("tick") EXCEPT !.now = @ + 1])
    /\ UNCHANGED <<appTurn, retry, wire, budget>>

NextChat ==
    \/ \E payload \in ChatEvents : ChatEvent(payload)
    \/ Tick

SpecChat == Init /\ [][NextChat]_vars

TypeOK ==
    /\ Len(conversation) <= MaxMessages
    /\ now \in 0..MaxNow
    /\ Len(inbound) <= MaxInbound
    /\ dispatched \in 0..Len(inbound)
    /\ \A channel \in Channels :
           \A i, j \in 1..Len(subscribers[channel]) :
               subscribers[channel][i] = subscribers[channel][j] => i = j
    /\ Len(sockets) <= MaxSockets
    /\ ws \in 0..Len(sockets)
    /\ reconnectAttempts \in 0..maxReconnectAttempts
    /\ reconnectTimeout \in BOOLEAN
    /\ reconnectTimers \in Nat
    /\ reconnectTimeout => reconnectTimers > 0
    /\ pingTimers \in Nat
    /\ pingInterval => pingTimers > 0
    /\ requestId \in 0..MaxRequestId
    /\ pendingRequests \subseteq DOMAIN requests
    /\ \A sock \in authFailed : sockets[sock] = "CLOSING"
    /\ ws # 0 => sockets[ws] # "CLOSING"

\* ------------------------------------------------------------ claims

\* C1: a sendChatMessage call made while getIsConnected() is false fails at
\* once with "Not connected to gateway": it writes no frame, allocates no
\* request id and leaves the pending-request table as it was.
C1_NotConnectedFailsFast ==
    [][(out'[1] = "sendChatMessage" /\ ~getIsConnected) =>
           /\ out' = <<"sendChatMessage",
                       <<"throw", "Not connected to gateway">>>>
           /\ pendingRequests' = pendingRequests
           /\ requests' = requests
           /\ requestId' = requestId
           /\ sockets' = sockets]_vars

\* The call was refused although the socket was open (authenticating).
C1_Witness ==
    /\ out = <<"sendChatMessage", <<"throw", "Not connected to gateway">>>>
    /\ wsIsOpen(Cur)
    /\ ~getIsConnected
    /\ pendingRequests # {}

\* C2: every request is settled at most once, by the response, the deadline
\* or the teardown, whichever comes first: it is in the pending-request
\* table exactly until its callback has been called, no later resolve or
\* reject reaches the callback again, and a deadline timer is armed only
\* for a request that is still in the table.
C2_SettledOnce ==
    \A id \in DOMAIN requests :
        /\ requests[id].calls <= 1
        /\ id \in pendingRequests <=> requests[id].calls = 0
        /\ requests[id].timer => id \in pendingRequests

\* A response arrived for a request that was settled before, and nothing
\* was called.
C2_Witness ==
    /\ \E id \in DOMAIN requests :
           /\ out = <<"response", <<"id", id>>>>
           /\ requests[id].calls = 1
           /\ ~requests[id].timer
           /\ id \notin pendingRequests
    /\ pendingRequests # {}

\* C3: disconnect() fails every pending request with "Connection closed"
\* and stops the keepalive timer, and the close notification of a socket
\* that disconnect() closed schedules no reconnect attempt.
C3_DisconnectIsFinal ==
    [][/\ out'[1] = "disconnect" =>
              /\ \A id \in pendingRequests :
                     <<"reject", id, "Connection closed">> \in Outputs(out')
              /\ pendingRequests' = {}
              /\ pingTimers' = 0
       /\ (/\ out'[1] = "close"
           /\ \E sock \in 1..Len(sockets) :
                  sockets[sock] = "CLOSING" /\ sockets'[sock] = "CLOSED")
          => /\ ~reconnectTimeout'
             /\ reconnectAttempts' = reconnectAttempts]_vars

\* C4: once the current socket has closed unintentionally and until a
\* socket opens or the application calls connect or disconnect, the retry
\* timer makes exactly maxReconnectAttempts connection attempts, one at a
\* time: until the terminal error "Could not connect to gateway" is
\* surfaced a retry is pending or under way, and when it is surfaced all
\* the attempts have been made and no retry timer is left.
C4_ExactlyNRetries ==
    (retry # NoRetry /\ microtasks = <<>>) =>
        /\ retry.made <= maxReconnectAttempts
        /\ IF retry.terminal
           THEN retry.made = maxReconnectAttempts /\ reconnectTimers = 0
           ELSE \/ reconnectTimeout
                \/ ws # 0 /\ sockets[ws] = "CONNECTING"

\* The client enters Ready
EntersReady == ~isConnected /\ isConnected'

\* C5 as stated: the attempt counter is 0 whenever the client enters Ready,
\* and nothing but entering Ready resets it.
C5_ResetOnlyOnReady ==
    [][/\ EntersReady => reconnectAttempts' = 0
       /\ reconnectAttempts' < reconnectAttempts => EntersReady]_vars

\* C5: the attempt counter is reset to zero by every socket open
\* notification, before the authentication request is sent, and by nothing
\* else; whenever the client enters Ready the counter is 0.
C5_ResetOnSocketOpen ==
    [][/\ EntersReady => reconnectAttempts' = 0
       /\ out'[1] = "open" => reconnectAttempts' = 0
       /\ reconnectAttempts' < reconnectAttempts => out'[1] = "open"]_vars

\* A socket has opened while a retry was scheduled: the counter is back at 0
\* although the client is not Ready.
C5_Witness ==
    /\ out[1] = "open"
    /\ reconnectTimers > 0
    /\ reconnectAttempts = 0
    /\ ~isConnected

Live(socks) == { sock \in 1..Len(socks) : socks[sock] \in {"CONNECTING", "OPEN"} }

\* C6: a connect call made while a retry timer is pending cancels the timer
\* and opens exactly one socket, which becomes the current one, and a retry
\* timer never opens a socket while another socket of the client is
\* connecting or open.
C6_ConnectSupersedesRetry ==
    [][/\ (out'[1] = "connect" /\ reconnectTimers > 0) =>
              /\ reconnectTimers' = 0
              /\ Len(sockets') = Len(sockets) + 1
              /\ ws' = Len(sockets')
       /\ (out'[1] = "reconnect" /\ Len(sockets') > Len(sockets)) =>
              Live(sockets) = {}]_vars

\* C7: a connect call that names the target the client is already
\* connecting or connected to opens no socket, sends no request and leaves
\* the current socket, the lifecycle state and the pending-request table as
\* they were.
C7_ConnectIdempotent ==
    [][(/\ out'[1] = "connect"
        /\ url' = url /\ token' = token
        /\ ws # 0 /\ sockets[ws] \in {"CONNECTING", "OPEN"}) =>
           /\ sockets' = sockets
           /\ ws' = ws
           /\ isConnected' = isConnected
           /\ requestId' = requestId
           /\ pendingRequests' = pendingRequests
           /\ requests' = requests]_vars

\* C8: when the authentication request fails with an error response or a
\* timeout, error subscribers get the reason, the socket is closed, the
\* client is not connected and no retry is scheduled, neither then nor by
\* the close notification of the socket closed for that failure.
C8_AuthFailureIsFinal ==
    [][/\ (/\ out'[1] = "microtask"
           /\ Head(microtasks)[1] = "authFail"
           /\ Head(microtasks)[2] \notin OwnReasons) =>
              /\ <<"error", IF Head(microtasks)[2] # ""
                            THEN Head(microtasks)[2]
                            ELSE "Authentication failed">> \in Outputs(out')
              /\ ws # 0 /\ sockets'[ws] = "CLOSING"
              /\ ws' = 0
              /\ ~isConnected'
              /\ ~reconnectTimeout'
       /\ (/\ out'[1] = "close"
           /\ \E sock \in authFailed : sockets'[sock] = "CLOSED") =>
              /\ ~reconnectTimeout'
              /\ reconnectAttempts' = reconnectAttempts]_vars

\* C9: when the deadline of a pending request elapses, the request fails
\* with "Request <method> timed out" and leaves the table, nothing else
\* being called; a response whose id is not in the table, as is the id of
\* a request that has timed out, calls nothing and changes nothing.
C9_TimeoutThenLateResponse ==
    [][/\ out'[1] = "timeout" =>
              \A id \in DOMAIN requests : RequestTimeoutStep(id) =>
                  /\ id \in pendingRequests
                  /\ out' = <<"timeout", <<"reject", id,
                                           TimedOut(requests[id].method)>>>>
                  /\ pendingRequests' = pendingRequests \ {id}
                  /\ ~requests'[id].timer
                  /\ requests'[id].calls = 1
       /\ out'[1] = "response" =>
              \A id \in DOMAIN requests \ pendingRequests :
                  out'[2] = <<"id", id>> =>
                      /\ out' = <<"response", <<"id", id>>>>
                      /\ pendingRequests' = pendingRequests
                      /\ requests' = requests
                      /\ microtasks' = microtasks
                      /\ isConnected' = isConnected
                      /\ pingTimers' = pingTimers
                      /\ reconnectTimers' = reconnectTimers
                      /\ sockets' = sockets]_vars

\* A chat request has timed out; the client is still Ready.
C9_Witness ==
    /\ \E id \in DOMAIN requests :
           /\ out = <<"timeout",
                      <<"reject", id, "Request chat.send timed out">>>>
           /\ requests[id].calls = 1
           /\ id \notin pendingRequests
    /\ isConnected

\* The request, in the pre-state, that a step resolves
Resolved(id) == \E result \in Results : <<"resolve", id, result>> \in Outputs(out')

\* C10: getIsConnected() is true only in Ready.  It becomes true only when
\* handleOpen resumes after the success response to an authentication
\* request that was written to the current socket; while it is true the
\* current socket stays the same and is open, so it is false while that
\* socket is connecting, before its authentication has succeeded and when
\* there is no open socket (a retry pending or not); it is false after
\* every disconnect() and every close notification.  The phases are those
\* of the current socket: a retry timer or an authentication request left
\* by another socket can be outstanding while the client is Ready.
C10_ConnectedOnlyInReady ==
    [][/\ getIsConnected' => wsIsOpen(Cur)'
       /\ (getIsConnected /\ getIsConnected') => ws' = ws
       /\ EntersReady =>
              /\ out'[1] = "microtask"
              /\ Head(microtasks) = <<"authOk">>
              /\ ws' = ws
       /\ Len(microtasks') > Len(microtasks) /\
          microtasks'[Len(microtasks')] = <<"authOk">> =>
              \E id \in pendingRequests :
                  /\ Resolved(id)
                  /\ requests[id].method = "connect"
                  /\ requests[id].sock = ws
                  /\ Len(microtasks') = 1
       /\ out'[1] \in {"disconnect", "close"} => ~getIsConnected']_vars

\* Ready: connected, the authentication request answered, a chat request
\* pending on the current socket.
C10_Witness ==
    /\ getIsConnected
    /\ wsIsOpen(Cur)
    /\ \E id \in pendingRequests : requests[id].method = "chat.send"
    /\ \E id \in DOMAIN requests : requests[id].calls = 1

\* The fields and timers of two states of the service are the same
SameService(s1, s2) ==
    /\ s1.sockets = s2.sockets
    /\ s1.ws = s2.ws
    /\ s1.url = s2.url
    /\ s1.token = s2.token
    /\ s1.reconnectAttempts = s2.reconnectAttempts
    /\ s1.reconnectTimeout = s2.reconnectTimeout
    /\ s1.reconnectTimers = s2.reconnectTimers
    /\ s1.pingInterval = s2.pingInterval
    /\ s1.pingTimers = s2.pingTimers
    /\ s1.isIntentionalClose = s2.isIntentionalClose
    /\ s1.isConnected = s2.isConnected
    /\ s1.requestId = s2.requestId
    /\ s1.pendingRequests = s2.pendingRequests
    /\ s1.requests = s2.requests
    /\ s1.microtasks = s2.microtasks

\* C11: disconnect() never throws and leaves no current socket, the client
\* not connected, the pending-request table empty, no keepalive timer, no
\* retry timer and the intentional-close flag set, whatever the state it is
\* called in; a second disconnect() called right after changes nothing.
C11_DisconnectIdempotent ==
    [][out'[1] = "disconnect" =>
           /\ \A o \in Outputs(out') : o[1] # "throw"
           /\ ws' = 0
           /\ ~isConnected'
           /\ pendingRequests' = {}
           /\ pingTimers' = 0
           /\ reconnectTimers' = 0
           /\ isIntentionalClose'
           /\ SameService(disconnect(Cur)', Cur')]_vars

\* C12: a keepalive timer is armed only while the client is Ready and there
\* is never more than one; a keepalive callback that runs while the client
\* is not Ready does not exist, so no keepalive frame is written then.
C12_KeepaliveOnlyInReady ==
    [][/\ pingTimers' <= 1
       /\ pingTimers' > 0 => isConnected'
       /\ out'[1] = "ping" => isConnected]_vars

\* C13: a notification of a channel calls every handler registered for the
\* channel once, in the order of registration and with the notified value,
\* whether or not a handler called before it threw, and changes neither
\* the registrations nor any field or timer of the service.
C13_AllSubscribersInvoked ==
    [][\A channel \in Channels :
           (out'[1] = "notify" /\ out'[2][1] = channel) =>
               /\ Len(invoked') = Len(subscribers[channel])
               /\ \A i \in 1..Len(invoked') :
                      /\ invoked'[i].handler = subscribers[channel][i]
                      /\ invoked'[i].channel = channel
                      /\ invoked'[i].argument = out'[2][2]
               /\ subscribers' = subscribers
               /\ SameService(Cur, Cur')]_vars

\* The first handler called threw and the second one was called.
C13_Witness ==
    /\ out[1] = "notify"
    /\ Len(invoked) = 2
    /\ invoked[1].threw
    /\ ~invoked[2].threw

\* The chat event handled by a step of the handler of HomeScreen, and
\* whether the handler goes on with it
Handled == out'[2][2]
Accepted(payload) == payload.text # "" /\ payload.role = "assistant"
Streamed(payload) ==
    /\ streamingMessageRef # Null
    /\ streamingMessageRef.runId = payload.runId

\* C14: a delta or final event of the runId that is being streamed adds no
\* message and sets the content of the message of the stream to the text
\* of the event, so that deltas followed by the final of one runId make one
\* message; a final event of a runId that is not being streamed adds a
\* message.
C14_OneMessagePerStream ==
    [][(/\ out'[1] = "onChatEvent"
        /\ Accepted(Handled)
        /\ Handled.runId # ""
        /\ Handled.state \in {"delta", "final"}) =>
           IF Streamed(Handled)
           THEN /\ Len(conversation') = Len(conversation)
                /\ \E i \in 1..Len(conversation) :
                       /\ conversation[i].id = streamingMessageRef.messageId
                       /\ conversation'[i].content = Handled.text
           ELSE /\ Len(conversation') = Len(conversation) + 1
                /\ conversation'[Len(conversation')].content = Handled.text]_vars

\* C15: the request id counter never goes back, whatever the client does
\* (disconnects and reconnects included); the id of every request frame the
\* client writes is larger than every id allocated before, was never in
\* the table of requests, and becomes pending with that frame; the
\* idempotency key of a chat request is a fresh id too, distinct from the
\* id of its frame. A response with an id settles no request but the one
\* that carried the id.
C15_RequestIdsDistinct ==
    [][/\ requestId' >= requestId
       /\ \A o \in Outputs(out') :
              (o[1] = "send" /\ o[3].type = "req") =>
                  /\ o[3].id > requestId
                  /\ o[3].id <= requestId'
                  /\ o[3].id \notin DOMAIN requests
                  /\ o[3].id \in pendingRequests' \ pendingRequests
                  /\ requests'[o[3].id].sock = o[2]
                  /\ o[3].method = "chat.send" =>
                         /\ o[3].params.idempotencyKey > requestId
                         /\ o[3].params.idempotencyKey # o[3].id
       /\ pendingRequests' \subseteq 1..requestId'
       /\ (out'[1] = "response" /\ out'[2][1] = "id") =>
              \A o \in Outputs(out') :
                  o[1] \in {"resolve", "reject"} => o[2] = out'[2][2]]_vars

\* A request is pending that was sent on a later socket than the first,
\* the first being closed, after other ids were allocated.
C15_Witness ==
    /\ Len(sockets) >= 2
    /\ sockets[1] = "CLOSED"
    /\ \E id \in pendingRequests :
           id >= 3 /\ requests[id].sock >= 2 /\ requests[id].method = "chat.send"

\* C16: no chat request stays pending for ever: again and again it is not
\* pending; a request is pending exactly as long as its promise is not
\* settled; and the step that settles a chat request resolves it, or
\* rejects it with the error of the response, with the timeout failure or
\* with the connection-closed failure.
C16_AcceptedRequestCompletes ==
    /\ \A id \in 1..MaxRequestId :
           []<>(id \in pendingRequests => requests[id].method # "chat.send")
    /\ [](\A id \in DOMAIN requests :
              id \in pendingRequests <=> requests[id].calls = 0)
    /\ [][\A id \in pendingRequests :
              (requests[id].method = "chat.send" /\ requests'[id].calls > 0) =>
                  /\ id \notin pendingRequests'
                  /\ \/ out'[1] = "response" /\ out'[2] = <<"id", id>>
                        /\ \E o \in Outputs(out') :
                               o[1] \in {"resolve", "reject"} /\ o[2] = id
                     \/ <<"reject", id, "Request chat.send timed out">>
                            \in Outputs(out')
                     \/ <<"reject", id, "Connection closed">>
                            \in Outputs(out')]_vars

\* The deadline of a chat request has fired and failed it.
C16_Witness ==
    /\ out[1] = "timeout"
    /\ \E id \in DOMAIN requests :
           /\ out[2] = <<"reject", id, "Request chat.send timed out">>
           /\ id \notin pendingRequests

IsChat(message) == message.type = "event" /\ message.event = "chat"

\* C17: the frame a step decodes is the next one in the order of arrival;
\* within that step every chat subscriber has been called with the payload
\* of the frame, if it is a chat event, and none otherwise; so the calls
\* made so far are those of the frames decoded so far, in the order of
\* their arrival.
C17_ArrivalOrder ==
    [][/\ dispatched' # dispatched =>
           /\ dispatched' = dispatched + 1
           /\ inbound' = inbound
           /\ LET message == inbound[dispatched']
                  called == SubSeq(observed', Len(observed) + 1,
                                   Len(observed'))
              IN /\ SubSeq(observed', 1, Len(observed)) = observed
                 /\ Len(called) = IF IsChat(message)
                                  THEN Len(subscribers.chat) ELSE 0
                 /\ \A i \in 1..Len(called) :
                        /\ called[i].handler = subscribers.chat[i]
                        /\ called[i].payload = message.payload
                        /\ called[i].frame = dispatched'
       /\ dispatched' = dispatched => observed' = observed
       /\ \A j, k \in 1..Len(observed') :
              j < k => observed'[j].frame <= observed'[k].frame
       /\ \A k \in 1..Len(observed') :
              /\ observed'[k].frame <= dispatched'
              /\ IsChat(inbound'[observed'[k].frame])
              /\ inbound'[observed'[k].frame].payload = observed'[k].payload]_vars

\* Two subscribers have each seen the delta and then the final event of a
\* runId, which arrived in that order.
C17_Witness ==
    /\ Len(observed) = 4
    /\ observed[1].handler = observed[3].handler
    /\ observed[1].payload.state = "delta"
    /\ observed[3].payload.state = "final"
    /\ observed[1].frame < observed[3].frame

\* What the deadline of a request must leave as it is: the other requests,
\* the sockets, the lifecycle state, the keepalive and the retry timers
OthersUntouched(ids) ==
    /\ pendingRequests' = pendingRequests \ ids
    /\ \A other \in DOMAIN requests \ ids : requests'[other] = requests[other]
    /\ sockets' = sockets
    /\ ws' = ws
    /\ isConnected' = isConnected
    /\ pingInterval' = pingInterval
    /\ pingTimers' = pingTimers
    /\ reconnectTimeout' = reconnectTimeout
    /\ reconnectTimers' = reconnectTimers
    /\ reconnectAttempts' = reconnectAttempts
    /\ isIntentionalClose' = isIntentionalClose

\* C18 as stated: when the deadline of a pending request elapses, that
\* request fails and nothing else changes, neither in the callback of the
\* timer nor in what the failure of the request sets off.
C18_OnlyThatRequestFails ==
    [][/\ out'[1] = "timeout" => OthersUntouched({out'[2][2]})
       /\ (/\ out'[1] = "microtask"
           /\ Head(microtasks) = <<"authFail", TimedOut("connect")>>) =>
              OthersUntouched({})]_vars

\* C18, amended: the callback of the deadline fails that request with the
\* timeout reason and changes nothing else; the failure of a chat request
\* sets nothing off, while the failure of the authentication request
\* resumes handleOpen, which reports it to the error subscribers and
\* disconnects: no current socket, not connected, no request pending.
C18_OnlyThatRequestFailsInReady ==
    [][/\ out'[1] = "timeout" =>
              /\ out'[2] = <<"reject", out'[2][2],
                             TimedOut(requests[out'[2][2]].method)>>
              /\ OthersUntouched({out'[2][2]})
              /\ microtasks' =
                     IF requests[out'[2][2]].method = "connect"
                     THEN <<<<"authFail", TimedOut("connect")>>>>
                     ELSE <<>>
       /\ (/\ out'[1] = "microtask"
           /\ Head(microtasks) = <<"authFail", TimedOut("connect")>>) =>
              /\ <<"error", TimedOut("connect")>> \in Outputs(out')
              /\ ws' = 0
              /\ ~isConnected'
              /\ pendingRequests' = {}]_vars

\* The deadline of a chat request has fired while another request is
\* pending and the client is Ready.
C18_Witness ==
    /\ out[1] = "timeout"
    /\ out[2][3] = TimedOut("chat.send")
    /\ pendingRequests # {}
    /\ isConnected
    /\ pingTimers > 0

\* The frames that cannot be decoded or whose type is neither response nor
\* event, and the subscribers there may be
Malformed == [type : {"hello", "malformed"}]
Subscriptions ==
    { [channel \in Channels |-> handlers] :
          handlers \in {<<"h1">>, <<"h2">>, <<"h1", "h2">>} }

\* C19: a step that receives a malformed frame changes nothing: no request
\* is resolved or rejected, no error is reported, and the sockets, the
\* lifecycle state, the table of pending requests and every timer are as
\* before; and whatever the subscribers, handleMessage calls none of them
\* with such a frame.
C19_MalformedFrameDropped ==
    [][/\ out'[1] = "frame" =>
              /\ out' = <<"frame">>
              /\ invoked' = <<>>
              /\ SameService(Cur, Cur')
              /\ subscribers' = subscribers
              /\ \A message \in Malformed, subs \in Subscriptions :
                     LET s == [Begin("frame") EXCEPT !.subscribers = subs]
                     IN handleMessage(s, message) = s]_vars

\* A malformed frame has arrived while the client is Ready, a request is
\* pending with its deadline armed and the keepalive is running.
C19_Witness ==
    /\ out = <<"frame">>
    /\ isConnected
    /\ pingTimers > 0
    /\ \E id \in pendingRequests : requests[id].timer

\* C20: the frame decoded from the text a request frame was encoded to has
\* the keys type, id, method and params, each with the value it has in the
\* request frame, and is equal to the request frame.
C20_RoundTrip ==
    echo.stage = "received" =>
        /\ echo.message.t = "object"
        /\ echo.message.own = <<"type", "id", "method", "params">>
        /\ \A key \in {"type", "id", "method", "params"} :
               echo.message.val[key] = echo.request.val[key]
        /\ echo.message = echo.request
        /\ echo.data # echo.request

\* A connect request, with its nested objects and its array, has been
\* encoded and decoded.
C20_Witness ==
    /\ echo.stage = "received"
    /\ echo.request.val.method = Str("connect")
    /\ echo.message.val.params.val.auth.val.token = Str("t1")

\* The responses a gateway can send for request id
Responses(id) ==
    [type : {"res"}, id : {id}, error : {"none"}, result : Results]
    \cup [type : {"res"}, id : {id}, error : ErrorMessages, result : {"none"}]

\* What handleResponse does with a response to a pending request: the
\* deadline cancelled, the entry removed, then the callback
Completion(response, callback) ==
    << "response", <<"id", response.id>>, <<"clearTimeout", response.id>>,
       <<"delete", response.id>>, callback >>

\* C21 as stated: a step that receives a response to a pending request
\* does what handleMessage does with one of the responses to it, and of
\* every such response handleMessage cancels the deadline, removes the
\* entry and then fails the request with the message of the error if the
\* frame carries an error, and resolves it with the result of the frame
\* otherwise.
C21_ResponseCompletesRequest ==
    [][(out'[1] = "response" /\ out'[2][2] \in pendingRequests) =>
           /\ \E response \in Responses(out'[2][2]) :
                  out' = handleMessage(Receive(response), response).out
           /\ \A response \in Responses(out'[2][2]) :
                  handleMessage(Receive(response), response).out =
                      Completion(response,
                          IF response.error # "none"
                          THEN <<"reject", response.id, response.error>>
                          ELSE <<"resolve", response.id, response.result>>)
           /\ pendingRequests' = pendingRequests \ {out'[2][2]}
           /\ ~requests'[out'[2][2]].timer]_vars

\* C21, amended: the failure carries the message of the error, or "Request
\* failed" when the error has no message.
C21_ResponseCompletesRequestWithReason ==
    [][(out'[1] = "response" /\ out'[2][2] \in pendingRequests) =>
           /\ \E response \in Responses(out'[2][2]) :
                  out' = handleMessage(Receive(response), response).out
           /\ \A response \in Responses(out'[2][2]) :
                  handleMessage(Receive(response), response).out =
                      Completion(response,
                          IF response.error = "none"
                          THEN <<"resolve", response.id, response.result>>
                          ELSE IF response.error = ""
                          THEN <<"reject", response.id, "Request failed">>
                          ELSE <<"reject", response.id, response.error>>)
           /\ pendingRequests' = pendingRequests \ {out'[2][2]}
           /\ ~requests'[out'[2][2]].timer
           /\ requests'[out'[2][2]].calls = 1]_vars

\* A response with an error that has no message has failed a chat request.
C21_Witness ==
    /\ out[1] = "response"
    /\ Len(out) = 5
    /\ out[5] = <<"reject", out[2][2], "Request failed">>
    /\ isConnected

\* C22: the step that decodes an event frame named "chat" calls every chat
\* subscriber once, in the order of subscription, with the payload of the
\* frame as it is, and calls no one else; the step that decodes an event
\* frame with another name, "pong" included, calls no one and changes
\* nothing; and so does handleMessage whatever the subscribers of the three
\* channels.
C22_EventRouting ==
    [][(/\ dispatched' # dispatched
        /\ inbound[dispatched'].type = "event") =>
           LET message == inbound[dispatched']
               entry == [Receive(message) EXCEPT !.dispatched = @ + 1]
           IN /\ invoked' = IF IsChat(message)
                            THEN [i \in 1..Len(subscribers.chat) |->
                                     Call("chat", subscribers.chat[i],
                                          message.payload)]
                            ELSE <<>>
              /\ out' = IF IsChat(message)
                        THEN <<"event", <<"chat", message.payload>>>>
                        ELSE <<"event">>
              /\ SameService(Cur, Cur')
              /\ subscribers' = subscribers
              /\ \A subs \in Subscriptions :
                     LET s == [entry EXCEPT !.subscribers = subs]
                     IN handleMessage(s, message) =
                            IF IsChat(message)
                            THEN [s EXCEPT
                                     !.out = Append(@, <<"chat",
                                                         message.payload>>),
                                     !.invoked =
                                         [i \in 1..Len(subs.chat) |->
                                             Call("chat", subs.chat[i],
                                                  message.payload)]]
                            ELSE s]_vars

\* Two chat subscribers have been called with a delta event, and after
\* that a pong event was decoded.
C22_Witness ==
    /\ dispatched >= 2
    /\ inbound[dispatched].type = "event"
    /\ inbound[dispatched].event = "pong"
    /\ out = <<"event">>
    /\ Len(observed) = 2
    /\ observed[1].payload.state = "delta"
    /\ observed[1].handler # observed[2].handler

\* The chat request frame a step writes, if it writes one
ChatSends(o) ==
    { frame \in { sent[3] : sent \in { w \in Outputs(o) : w[1] = "send" } } :
          frame.type = "req" /\ frame.method = "chat.send" }

\* C23 as stated: the idempotency key of a chat request frame carries the
\* counter value of the id of the frame, and is a value no call carried
\* before.
C23_KeyCarriesRequestId ==
    [][\A frame \in ChatSends(out') :
           /\ frame.params.idempotencyKey = frame.id
           /\ frame.params.idempotencyKey > requestId]_vars

\* C23, amended: the idempotency key is an id of its own, allocated from
\* the counter of the request ids just before the id of the frame: it is
\* larger than every id and every key allocated before, the id of the
\* frame is the next value, and the counter, which never goes back, ends
\* at the id of the frame; so no two calls carry the same key, and no key
\* is the id of a request.
C23_KeyPrecedesRequestId ==
    [][/\ requestId' >= requestId
       /\ \A frame \in ChatSends(out') :
              /\ out'[1] = "sendChatMessage"
              /\ frame.params.idempotencyKey = requestId + 1
              /\ frame.id = frame.params.idempotencyKey + 1
              /\ requestId' = frame.id
              /\ frame.params.idempotencyKey \notin DOMAIN requests'
              /\ frame.params.sessionKey = "main"]_vars

\* A chat request has been written after a reconnect, ids having been
\* allocated on the first socket.
C23_Witness ==
    /\ out[1] = "sendChatMessage"
    /\ \E frame \in ChatSends(out) :
           /\ frame.params.idempotencyKey = 3
           /\ frame.id = 4
    /\ Len(sockets) >= 2

\* The current socket closes while the client is Ready, disconnect() not
\* having been called on it
ClosesInReady ==
    /\ out'[1] = "close"
    /\ isConnected
    /\ ws # 0
    /\ sockets[ws] = "OPEN"
    /\ sockets'[ws] = "CLOSED"

\* The retry timer whose handle the service holds fires
HeldTimerFires ==
    /\ out'[1] = "reconnect"
    /\ reconnectTimeout
    /\ ~reconnectTimeout'

AuthInFlight(pending, reqs) ==
    { id \in pending : reqs[id].method = "connect" }

\* C25: at most one authentication request is pending at any time, and
\* the authentication request a socket open notification writes goes to
\* the socket that opened.
C25_OneAuthenticationInFlight ==
    [][/\ Cardinality(AuthInFlight(pendingRequests', requests')) <= 1
       /\ out'[1] = "open" =>
              \A o \in Outputs(out') :
                  o[1] = "send" =>
                      /\ sockets[o[2]] = "CONNECTING"
                      /\ sockets'[o[2]] = "OPEN"]_vars

\* C26: no runId has more than one message made for it by its delta
\* events since its last final event; a delta event of a runId that has
\* its message adds none and sets the content of a message to its text;
\* and after the final event of a runId the accumulator is not open for
\* that runId.
C26_OneMessagePerRunId ==
    [][/\ \A runId \in DOMAIN streams : streams'[runId] <= 1
       /\ (out'[1] = "onChatEvent" /\ Accepted(Handled)) =>
              /\ (/\ StateOf(Handled) = "delta"
                  /\ streams[RunIdOf(Handled)] >= 1) =>
                     /\ Len(conversation') = Len(conversation)
                     /\ \E i \in 1..Len(conversation') :
                            conversation'[i].content = Handled.text
              /\ StateOf(Handled) = "final" =>
                     streamingMessageRef'.runId # RunIdOf(Handled)]_vars

\* C27: the first frame written to a socket is an authentication request,
\* written in the step in which the socket opens; and a chat request is
\* written only to a socket on which an authentication request has been
\* answered with success.
C27_AuthenticationFirst ==
    [][/\ \A sock \in 1..MaxSockets :
              /\ wire'[sock].first \in {"none", "connect"}
              /\ (wire[sock].first = "none" /\ wire'[sock].first # "none") =>
                     /\ out'[1] = "open"
                     /\ sockets[sock] = "CONNECTING"
                     /\ sockets'[sock] = "OPEN"
       /\ \A o \in Outputs(out') :
              (/\ o[1] = "send"
               /\ o[3].type = "req"
               /\ o[3].method = "chat.send") => wire[o[2]].authenticated]_vars

\* A chat request has been written to the second socket of the client,
\* after the authentication on that socket.
C27_Witness ==
    /\ out[1] = "sendChatMessage"
    /\ \E frame \in ChatSends(out) : TRUE
    /\ ws = 2
    /\ wire[2] = [first |-> "connect", authenticated |-> TRUE]

\* What the service holds of its current connection
ConnectionState ==
    <<pendingRequests, pingInterval, pingTimers, isConnected,
      reconnectAttempts, reconnectTimeout, reconnectTimers>>

\* The step is the open, close or message notification of the socket
Notifies(sock) ==
    \/ out'[1] = "open" /\ sockets[sock] # "OPEN" /\ sockets'[sock] = "OPEN"
    \/ out'[1] = "close" /\ sockets[sock] # "CLOSED"
                         /\ sockets'[sock] = "CLOSED"
    \/ /\ out'[1] \in {"response", "event", "frame"}
       /\ \E message \in Frames(sock) : SocketMessageStep(sock, message)

\* C28: a notification of a socket that is not the current socket of the
\* service leaves the current connection as it is: it rejects none of its
\* pending requests, stops no keepalive, leaves getIsConnected() as it is,
\* schedules no reconnect and notifies no status.
C28_StaleSocketIgnored ==
    [][\A sock \in 1..Len(sockets) :
           (ws # 0 /\ sock # ws /\ Notifies(sock)) =>
               /\ UNCHANGED ConnectionState
               /\ \A o \in Outputs(out') : o[1] \notin {"reject", "status"}]_vars

\* The status notifications of a step
StatusNotified(o) == { connected \in BOOLEAN : <<"status", connected>> \in Outputs(o) }

\* C29: when the status subscribers are notified, getIsConnected() returns
\* at that moment what they are told; and they are told "connected" only by
\* the continuation of handleOpen after an authentication request written to
\* the current socket has been answered with success.
C29_StatusAgreesWithState ==
    [][/\ \A i \in 1..Len(notified') : notified'[i][1] = notified'[i][2]
       /\ { notified'[i][1] : i \in 1..Len(notified') } = StatusNotified(out')
       /\ TRUE \in StatusNotified(out') =>
              /\ out'[1] = "microtask"
              /\ ws # 0
              /\ wire[ws].authenticated
              /\ ws' = ws
              /\ isConnected']_vars

\* The subscribers have been told "connected" for the second socket of the
\* service, the first one having closed before it was authenticated.
C29_Witness ==
    /\ out[1] = "microtask"
    /\ notified = << <<TRUE, TRUE>> >>
    /\ isConnected
    /\ ws = 2
    /\ wire[2].authenticated
    /\ ~wire[1].authenticated

\* C30: the socket made by a connect call that came after the terminal
\* error has the full retry budget: when it closes unintentionally before
\* it has opened, being the current socket, a retry is scheduled and the
\* terminal error is not surfaced; and the attempt counter never exceeds
\* maxReconnectAttempts.
C30_ConnectRestoresBudget ==
    [][/\ reconnectAttempts' <= maxReconnectAttempts
       /\ \A sock \in 1..Len(sockets) :
              (/\ out'[1] = "close"
               /\ sock = budget.socket
               /\ sock = ws
               /\ sockets[sock] = "CONNECTING"
               /\ sockets'[sock] = "CLOSED"
               /\ ~isIntentionalClose) =>
                  /\ ~GaveUp(out')
                  /\ reconnectTimeout'
                  /\ reconnectTimers' > 0]_vars
====
